---- MODULE Spec2Model ----
(***************************************************************************)
(* Street-based demographics: the similarity-guided greedy walk of         *)
(* scripts/greedy_walk.py over the TIGER street network (Spec, SpecTwice), *)
(* and the address-to-segment matcher of scripts/match_tlid.py and         *)
(* scripts/match_tlid_utils.py (SpecMatch).                                *)
(*                                                                         *)
(* TLIDs (street segments) and TNIDs (intersection nodes) are positive     *)
(* integers.  A dict is a function whose DOMAIN is the set of its keys; a   *)
(* list is a sequence.  Python's None is 0, numpy's inf is -1 (distances   *)
(* are never negative).                                                    *)
(***************************************************************************)
EXTENDS Integers, Sequences, FiniteSets, TLC

\* ---- bounds of the model ------------------------------------------------
MaxNodes == 4       \* TNIDs of the enumerated edge tables are 1..MaxNodes
MaxSegs == 2        \* the enumerated edge tables have 1..MaxSegs rows
MaxVal == 1         \* attribute values are 0..MaxVal
Dim == 1            \* number of attribute columns

None == 0
inf == 0 - 1

Names == {"Main St", "Oak Ave"}
Vals == 0..MaxVal

\* ---- lists and dicts ----------------------------------------------------
Range(s) == {s[i] : i \in DOMAIN s}

\* {}
EmptyDict == [x \in {} |-> None]

\* dict.pop(key, default): the dict without the key (unchanged if absent)
Pop(d, k) == [x \in (DOMAIN d) \ {k} |-> d[x]]

\* d[k] = v on a dict (adds the key when absent)
Put(d, k, v) == [x \in (DOMAIN d) \cup {k} |-> IF x = k THEN v ELSE d[x]]

\* a faulty removal: every occurrence is dropped
RemoveAll(list, x) == SelectSeq(list, LAMBDA y : y # x)

\* list.remove(x): drops the first occurrence (the caller checks x is there)
RECURSIVE RemoveFirst(_, _)
RemoveFirst(list, x) ==
    IF list = <<>> THEN <<>>
    ELSE IF Head(list) = x THEN Tail(list)
    ELSE <<Head(list)>> \o RemoveFirst(Tail(list), x)

\* the orders in which list(set(...)) can list the members of a set
Orders(S) == {p \in [1..Cardinality(S) -> S] : Range(p) = S}

\* list(d) of a dict whose keys were inserted in ascending order
RECURSIVE SortedSeq(_)
SortedSeq(S) ==
    IF S = {} THEN <<>>
    ELSE LET m == CHOOSE x \in S : \A y \in S : x <= y
         IN  <<m>> \o SortedSeq(S \ {m})

KeyList(d) == SortedSeq(DOMAIN d)

\* ---- the graph builder --------------------------------------------------
\* a faulty table: the to-node rows come before the from-node rows
to_rows_first(edges) ==
    [i \in 1..Len(edges) |->
        [TLID |-> edges[i].TLID, TNID |-> edges[i].TNIDT, DIR |-> 1]]
    \o
    [i \in 1..Len(edges) |->
        [TLID |-> edges[i].TLID, TNID |-> edges[i].TNIDF, DIR |-> 0]]

\* one row per (segment, from-node), then one row per (segment, to-node)
create_edge_node_df(edges) ==
    [i \in 1..Len(edges) |->
        [TLID |-> edges[i].TLID, TNID |-> edges[i].TNIDF, DIR |-> 0]]
    \o
    [i \in 1..Len(edges) |->
        [TLID |-> edges[i].TLID, TNID |-> edges[i].TNIDT, DIR |-> 1]]

\* groupby(key)[col].apply(list): the col values of the rows of one group
GroupList(df, key, k, col) ==
    LET rows == SelectSeq(df, LAMBDA r : r[key] = k)
    IN  [i \in 1..Len(rows) |-> rows[i][col]]

\* the dicts that map every key to list(set(its TLIDs)), the members of each
\* set listed in any order a set can list them
RECURSIVE set_lists(_, _)
set_lists(edge_node_df, keys) ==
    IF keys = {} THEN {EmptyDict}
    ELSE LET n == CHOOSE k \in keys : TRUE
         IN  {Put(d, n, o) :
                 d \in set_lists(edge_node_df, keys \ {n}),
                 o \in Orders(Range(GroupList(edge_node_df, "TNID", n, "TLID")))}

\* edge_node: TNID -> list(set(TLIDs at the node)); nodes_from_edges:
\* TLID -> [from-node, to-node]
create_node_dict(edge_node_df) ==
    LET tnids == {edge_node_df[i].TNID : i \in DOMAIN edge_node_df}
        tlids == {edge_node_df[i].TLID : i \in DOMAIN edge_node_df}
        nfe   == [t \in tlids |-> GroupList(edge_node_df, "TLID", t, "TNID")]
    IN  {[edge_node |-> en, nodes_from_edges |-> nfe] :
            en \in set_lists(edge_node_df, tnids)}

\* ---- the attribute table and the distance metrics ------------------------
\* data: TLID -> [attrs, FULLNAME], a row only for the segments that have one
AttrVecs == [1..Dim -> Vals]

\* data.drop('FULLNAME', axis=1)
drop_FULLNAME(data) == [t \in DOMAIN data |-> data[t].attrs]

RECURSIVE SumTo(_, _)
SumTo(f, n) == IF n = 0 THEN 0 ELSE f[n] + SumTo(f, n - 1)

\* np.linalg.norm(point_1 - point_2) is the square root of this sum of
\* squares; the square root is increasing, so comparing the sums compares the
\* norms.  The caller knows tlid_1 has a row: point_1 is read outside the try.
euc_distance(tlid_1, tlid_2, data) ==
    IF tlid_2 \notin DOMAIN data THEN inf
    ELSE LET point_1 == data[tlid_1]
             point_2 == data[tlid_2]
         IN  SumTo([i \in 1..Dim |->
                      (point_1[i] - point_2[i]) * (point_1[i] - point_2[i])], Dim)

\* scipy's mahalanobis(u, v, VI) is the square root of (u-v) VI (u-v)^T
mahal_distance(tlid_1, tlid_2, data, invcov_data) ==
    IF tlid_2 \notin DOMAIN data THEN inf
    ELSE LET point_1 == data[tlid_1]
             point_2 == data[tlid_2]
             row(i)  == SumTo([j \in 1..Dim |->
                           (point_1[i] - point_2[i]) * invcov_data[i][j]
                             * (point_1[j] - point_2[j])], Dim)
         IN  SumTo([i \in 1..Dim |-> row(i)], Dim)

\* the inverse covariance handed to the walk: the identity matrix
invcov == [i \in 1..Dim |-> [j \in 1..Dim |-> IF i = j THEN 1 ELSE 0]]

\* a faulty comparison: dist <= min_dist, with inf above every number
dist_le(dist, min_dist) ==
    min_dist = inf \/ (dist # inf /\ dist <= min_dist)

\* dist < min_dist, with inf above every number and not below itself
dist_lt(dist, min_dist) ==
    dist # inf /\ (min_dist = inf \/ dist < min_dist)

\* the running minimum after a hit: line 236 assigns to dist, not to
\* min_dist, so min_dist keeps its value
min_after_hit(dist, min_dist) == min_dist

\* the loop of find_most_similar from position i of edge_node[node] on
RECURSIVE fms_loop(_, _, _, _, _, _, _, _)
fms_loop(list, i, tlid, data, invcov_data, metric, min_dist, next_tlid) ==
    IF i > Len(list) THEN next_tlid
    ELSE LET contig_tlid == list[i]
             dist == IF metric = "e"
                     THEN euc_distance(tlid, contig_tlid, data)
                     ELSE mahal_distance(tlid, contig_tlid, data, invcov_data)
         IN  IF dist_lt(dist, min_dist)
             THEN fms_loop(list, i + 1, tlid, data, invcov_data, metric,
                           min_after_hit(dist, min_dist), contig_tlid)
             ELSE fms_loop(list, i + 1, tlid, data, invcov_data, metric,
                           min_dist, next_tlid)

\* find_most_similar raises KeyError in its first distance call when the
\* current segment has no row
fms_raises(tlid, node, edge_node, data) ==
    edge_node[node] # <<>> /\ tlid \notin DOMAIN data

find_most_similar(tlid, node, edge_node, data, invcov_data, metric) ==
    fms_loop(edge_node[node], 1, tlid, data, invcov_data, metric, inf, None)

\* a faulty indicator: its two values exchanged
other_street(cur_tlid, next_tlid, data) ==
    IF data[cur_tlid].FULLNAME = data[next_tlid].FULLNAME
    THEN [street |-> 0] ELSE [street |-> 1]

\* the indicator stored for a move from cur_tlid to next_tlid
same_street(cur_tlid, next_tlid, data) ==
    IF data[cur_tlid].FULLNAME = data[next_tlid].FULLNAME
    THEN [street |-> 1] ELSE [street |-> 0]

\* a faulty update: the table is left as it was
update_nothing(nodes, cur_node, indicator) == nodes

\* a faulty update: a node keeps the first indicator written for it
update_first(nodes, cur_node, indicator) ==
    IF cur_node \in DOMAIN nodes THEN nodes ELSE Put(nodes, cur_node, indicator)

\* nodes.update({cur_node: indicator})
update(nodes, cur_node, indicator) == Put(nodes, cur_node, indicator)

\* a faulty count: a restart does not add a path
same_path(num_paths) == num_paths

\* num_paths += 1
next_path(num_paths) == num_paths + 1

\* a faulty filter: visited segments stay listed
all_listed(list, nodes_from_edges) == list

\* [tlid for tlid in list if tlid in nodes_from_edges.keys()]
unvisited(list, nodes_from_edges) ==
    SelectSeq(list, LAMBDA tlid : tlid \in DOMAIN nodes_from_edges)

\* ---- inputs ---------------------------------------------------------------
Max(a, b) == IF a >= b THEN a ELSE b

RECURSIVE MaxNode(_, _)
MaxNode(top, n) ==
    IF n = 0 THEN 0 ELSE Max(Max(top[n][1], top[n][2]), MaxNode(top, n - 1))

\* node identifiers carry no meaning beyond identity: the enumerated tables
\* number their nodes in order of first appearance
FirstAppearance(top) ==
    \A i \in 1..Len(top) :
        /\ top[i][1] <= MaxNode(top, i - 1) + 1
        /\ top[i][2] <= Max(MaxNode(top, i - 1), top[i][1]) + 1

\* every (from-node, to-node) table of 1..MaxSegs segments on 1..MaxNodes
Enumerated ==
    UNION {{top \in [1..k -> (1..MaxNodes) \X (1..MaxNodes)] :
               FirstAppearance(top)} : k \in 1..MaxSegs}

\* an input family: a table of endpoints and the names, attribute vectors
\* and sets of row-less segments it is combined with
Family(tops, nameset, attrset, missingset) ==
    {[top |-> t, names |-> nm, attrs |-> a, missing |-> m] :
        t \in tops, nm \in nameset, a \in attrset, m \in missingset}

Uniform(k) == {[i \in 1..k |-> v] : v \in AttrVecs}

\* a 4-node cycle with equal attribute vectors, its segments directed around
\* it or against each other, on one street or on two
SquareInputs ==
    Family({<< <<1, 2>>, <<2, 3>>, <<3, 4>>, <<4, 1>> >>,
            << <<1, 2>>, <<3, 2>>, <<3, 4>>, <<1, 4>> >>},
           {<<"Main St", "Main St", "Main St", "Main St">>,
            <<"Main St", "Oak Ave", "Oak Ave", "Main St">>},
           Uniform(4), {{}})

\* two disconnected components: a two-segment path and a two-segment cycle
TwoComponentInputs ==
    Family({<< <<1, 2>>, <<2, 3>>, <<4, 5>>, <<5, 4>> >>},
           {<<"Main St", "Main St", "Oak Ave", "Main St">>},
           Uniform(4), {{}})

\* three segments at one intersection, a path that ends in a self-loop, and
\* an intersection with a self-loop
JunctionInputs ==
    Family({<< <<1, 2>>, <<1, 3>>, <<4, 1>> >>,
            << <<1, 2>>, <<2, 3>>, <<3, 3>> >>,
            << <<1, 1>>, <<1, 2>>, <<1, 3>> >>},
           {<<"Main St", "Oak Ave", "Main St">>},
           [1..3 -> AttrVecs], {{}, {1}, {2}, {3}})

FixedInputs == SquareInputs \cup TwoComponentInputs \cup JunctionInputs

EdgeTable(top, names) ==
    [i \in 1..Len(top) |->
        [TLID |-> i, TNIDF |-> top[i][1], TNIDT |-> top[i][2],
         FULLNAME |-> names[i]]]

\* the attribute table: the rows of the segments that have households
DataTable(edges, attrs, missing) ==
    [t \in (1..Len(edges)) \ missing |->
        [attrs |-> attrs[t], FULLNAME |-> edges[t].FULLNAME]]

\* ---- the state of a walk ------------------------------------------------
VARIABLES
    edges,              \* the segment table the graph was built from
    data,               \* the attribute table
    built,              \* what create_node_dict returned for edges
    edge_node,          \* TNID -> list of TLIDs, consumed by the walk
    nodes_from_edges,   \* TLID -> list of TNIDs, consumed by the walk
    nodes,              \* the decision table: TNID -> [street |-> 0 or 1]
    num_paths,
    cur_node,
    cur_tlid,
    pc,                 \* "start", "loop", "restarting", "done", "raised"
    err,                \* the exception that ended the call, or "none"
    returned,           \* the values the call returned: <<>> until it returns
    printed,            \* the two numbers the call prints before it returns
    step,               \* the last iteration: its branch and what it used
    entered,            \* times the stuck branch (Restarting) was entered
    visited,            \* the segments popped as current segment, in order
    moved,              \* the nodes a similarity move was made from
    run,                \* 1 for the first call of walk_network, 2 for a second
    fresh,              \* whether this call was given newly built mappings
    draws,              \* the random draws of this call, in order
    seed,               \* the draws of the first call, replayed by the second
    nodes_1             \* the decision table the first call returned

\* the state of the address matcher (scripts/match_tlid.py)
VARIABLES
    xwalk_cells,        \* per address: the crosswalk's TLIDs cell it merged with
    maf_xwalk,          \* the merged address/crosswalk table, one row per MAFID
    edges_geo,          \* the edges table: TLID -> its 'geometry' cell
    single,             \* what get_single_TLID_addresses returned
    multi,              \* what get_multi_TLID_addresses returned
    geom_list,          \* what get_candidate_geoms returned
    todo,               \* the addresses match_generator has yet to resolve
    multi_results,      \* the matches match_generator has made
    results,            \* the rows written to the output file
    reported,           \* the counts the partitioner printed
    mpc,                \* "off", "single", "multi", "geoms", "match",
                        \* "done", "raised"
    merr,               \* the exception that ended the run, or "none"
    top_closest,        \* what the top-level copy of find_closest returned
    shards              \* the same addresses resolved by several workers

matcher == <<xwalk_cells, maf_xwalk, edges_geo, single, multi, geom_list,
             todo, multi_results, results, reported, mpc, merr, top_closest,
             shards>>

walk == <<edges, data, built, edge_node, nodes_from_edges, nodes, num_paths,
          cur_node, cur_tlid, pc, err, returned, printed, step, entered,
          visited, moved, run, fresh, draws, seed, nodes_1>>

vars == <<walk, matcher>>

inputs == <<edges, data, built>>
history == <<run, fresh, seed, nodes_1>>

NoStep == [kind |-> "none", node |-> None, tlid |-> None, next |-> None,
           opts |-> <<>>]

\* random.choice(seq) with the generator's k-th next draw: the first call
\* may draw anything; a second call with the same seed repeats the draws
Draws(n, k) ==
    IF run = 2 /\ Len(draws) + k < Len(seed)
    THEN {seed[Len(draws) + k + 1]}
    ELSE 0..(n - 1)

Choice(seq, r) == seq[(r % Len(seq)) + 1]

\* no matcher run: the walk is a program of its own
\* the number of workers that share the addresses of multi
NShards == 2

\* no address taken: per worker the matches it has made, the addresses in
\* the order they were taken, the exception of a worker, the merged mapping
NoShards ==
    [out |-> [s \in 1..NShards |-> EmptyDict], order |-> <<>>,
     err |-> "none", merged |-> <<>>]

MatcherOff ==
    /\ shards = NoShards
    /\ xwalk_cells = <<>>
    /\ maf_xwalk = <<>>
    /\ edges_geo = EmptyDict
    /\ single = EmptyDict
    /\ multi = EmptyDict
    /\ geom_list = EmptyDict
    /\ todo = <<>>
    /\ multi_results = EmptyDict
    /\ results = EmptyDict
    /\ reported = EmptyDict
    /\ mpc = "off"
    /\ merr = "none"
    /\ top_closest = <<>>

Init ==
    /\ MatcherOff
    /\ \/ \* every small table with every choice of names, attribute
          \* vectors and missing rows
          \E t \in Enumerated :
             \E nm \in [1..Len(t) -> Names], a \in [1..Len(t) -> AttrVecs],
                m \in SUBSET (1..Len(t)) :
                  /\ edges = EdgeTable(t, nm)
                  /\ data = DataTable(edges, a, m)
       \/ \E in \in FixedInputs :
             /\ edges = EdgeTable(in.top, in.names)
             /\ data = DataTable(edges, in.attrs, in.missing)
    /\ built \in create_node_dict(create_edge_node_df(edges))
    /\ edge_node = built.edge_node
    /\ nodes_from_edges = built.nodes_from_edges
    /\ nodes = EmptyDict
    /\ num_paths = 0
    /\ cur_node = None
    /\ cur_tlid = None
    /\ pc = "start"
    /\ err = "none"
    /\ returned = <<>>
    /\ printed = <<>>
    /\ step = NoStep
    /\ entered = 0
    /\ visited = <<>>
    /\ moved = {}
    /\ run = 1
    /\ fresh = TRUE
    /\ draws = <<>>
    /\ seed = <<>>
    /\ nodes_1 = EmptyDict

\* an exception leaves walk_network: what was mutated in place stays mutated
Raise(e, en, nfe, tbl, drawn, st) ==
    /\ pc' = "raised"
    /\ err' = e
    /\ edge_node' = en
    /\ nodes_from_edges' = nfe
    /\ nodes' = tbl
    /\ draws' = drawn
    /\ step' = st
    /\ UNCHANGED <<num_paths, cur_node, cur_tlid, returned, printed, entered,
                   visited, moved>>

\* lines 300-302 and 354-356: print the two totals and return the table
Return(tbl) ==
    /\ pc' = "done"
    /\ printed' = <<Cardinality(DOMAIN tbl), num_paths>>
    /\ returned' = <<tbl>>

\* lines 268-275: the empty table, one path, a random node and one of its
\* segments
Start ==
    /\ pc = "start"
    /\ UNCHANGED <<inputs, history, matcher>>
    /\ IF DOMAIN edge_node = {}
       THEN Raise("IndexError", edge_node, nodes_from_edges, EmptyDict, draws,
                  NoStep)
       ELSE \E r1 \in Draws(Len(KeyList(edge_node)), 0) :
              LET n == Choice(KeyList(edge_node), r1)
              IN  IF edge_node[n] = <<>>
                  THEN Raise("IndexError", edge_node, nodes_from_edges,
                             EmptyDict, Append(draws, r1), NoStep)
                  ELSE \E r2 \in Draws(Len(edge_node[n]), 1) :
                         /\ cur_node' = n
                         /\ cur_tlid' = Choice(edge_node[n], r2)
                         /\ draws' = draws \o <<r1, r2>>
                         /\ nodes' = EmptyDict
                         /\ num_paths' = 1
                         /\ pc' = "loop"
                         /\ step' = NoStep
                         /\ UNCHANGED <<edge_node, nodes_from_edges, err,
                                        returned, printed, entered, visited,
                                        moved>>

\* lines 282-286 of an iteration: the current segment is popped and the
\* current node keeps its unvisited segments
\* a faulty iteration: the visited segment stays in the mapping
not_popped == nodes_from_edges
popped == Pop(nodes_from_edges, cur_tlid)
options == unvisited(edge_node[cur_node], popped)

\* lines 278-294: the iteration that finds no move from the current node; it
\* discards the node and goes looking for another one
DeadEnd ==
    /\ pc = "loop"
    /\ UNCHANGED <<inputs, history, matcher>>
    /\ IF DOMAIN nodes_from_edges = {}
       THEN \* the while test fails: lines 354-356
            /\ Return(nodes)
            /\ UNCHANGED <<edge_node, nodes_from_edges, nodes, num_paths,
                           cur_node, cur_tlid, err, step, entered, visited,
                           moved, draws>>
       ELSE IF cur_node \notin DOMAIN edge_node
       THEN Raise("KeyError", edge_node, popped, nodes, draws,
                  [NoStep EXCEPT !.kind = "lost", !.node = cur_node,
                                 !.tlid = cur_tlid])
       ELSE /\ options = <<>>
            /\ nodes_from_edges' = popped
            /\ edge_node' = Pop(edge_node, cur_node)
            /\ entered' = entered + 1
            /\ visited' = Append(visited, cur_tlid)
            /\ step' = [NoStep EXCEPT !.kind = "stuck", !.node = cur_node,
                                      !.tlid = cur_tlid]
            /\ IF DOMAIN edge_node' = {}
               THEN \* line 294: random.choice of an empty list
                    pc' = "raised" /\ err' = "IndexError"
               ELSE pc' = "restarting" /\ err' = err
            /\ UNCHANGED <<nodes, num_paths, cur_node, cur_tlid, returned,
                           printed, moved, draws>>

\* lines 278-286, 313-332, 341-352: the iteration that moves to the segment
\* find_most_similar returns
Move ==
    /\ pc = "loop"
    /\ DOMAIN nodes_from_edges # {}
    /\ cur_node \in DOMAIN edge_node
    /\ options # <<>>
    /\ UNCHANGED <<inputs, history, matcher>>
    /\ LET en1 == [edge_node EXCEPT ![cur_node] = options]
           st0 == [NoStep EXCEPT !.kind = "raise", !.node = cur_node,
                                 !.tlid = cur_tlid, !.opts = options]
       IN
       IF fms_raises(cur_tlid, cur_node, en1, drop_FULLNAME(data))
       THEN \* line 184 (157): the current segment has no attribute row
            Raise("KeyError", en1, popped, nodes, draws, st0)
       ELSE
       LET next_tlid == find_most_similar(cur_tlid, cur_node, en1,
                                          drop_FULLNAME(data), invcov, "e")
           st1 == [st0 EXCEPT !.next = next_tlid]
       IN
       IF next_tlid \notin DOMAIN popped
       THEN \* line 322: nodes_from_edges[None]
            Raise("KeyError", en1, popped, nodes, draws, st1)
       ELSE IF cur_node \notin Range(popped[next_tlid])
       THEN \* line 322: list.remove of a value that is not in the list
            Raise("ValueError", en1, popped, nodes, draws, st1)
       ELSE
       LET nfe2 == [popped EXCEPT ![next_tlid] = RemoveFirst(@, cur_node)]
       IN
       IF next_tlid \notin DOMAIN data
       THEN \* line 328: data.loc[next_tlid, 'FULLNAME']
            Raise("KeyError", en1, nfe2, nodes, draws, st1)
       ELSE
       LET tbl == update(nodes, cur_node, same_street(cur_tlid, next_tlid, data))
       IN
       IF nfe2[next_tlid] = <<>>
       THEN \* line 348: [0] of an empty list
            Raise("IndexError", en1, nfe2, tbl, draws, st1)
       ELSE /\ edge_node' = en1
            /\ nodes_from_edges' = nfe2
            /\ nodes' = tbl
            /\ cur_tlid' = next_tlid
            /\ cur_node' = nfe2[next_tlid][1]
            /\ visited' = Append(visited, cur_tlid)
            /\ moved' = moved \cup {cur_node}
            /\ step' = [st1 EXCEPT !.kind = "move"]
            /\ UNCHANGED <<num_paths, pc, err, returned, printed, entered,
                           draws>>

\* a faulty search: the node drawn is discarded whatever it has left
DiscardAny ==
    /\ pc = "restarting"
    /\ UNCHANGED <<inputs, history, matcher>>
    /\ \E r \in Draws(Len(KeyList(edge_node)), 0) :
         LET next_node == Choice(KeyList(edge_node), r)
         IN  /\ edge_node' = Pop(edge_node, next_node)
             /\ draws' = Append(draws, r)
             /\ step' = [NoStep EXCEPT !.kind = "discard", !.node = next_node]
             /\ IF DOMAIN edge_node' = {}
                THEN Return(nodes)
                ELSE UNCHANGED <<pc, returned, printed>>
             /\ UNCHANGED <<nodes_from_edges, nodes, num_paths, cur_node,
                            cur_tlid, err, entered, visited, moved>>

\* lines 294-306: the restart search draws a node that has no unvisited
\* segment left and discards it; with no node left the walk returns
Discard ==
    /\ pc = "restarting"
    /\ UNCHANGED <<inputs, history, matcher>>
    /\ \E r \in Draws(Len(KeyList(edge_node)), 0) :
         LET next_node == Choice(KeyList(edge_node), r)
         IN  /\ unvisited(edge_node[next_node], nodes_from_edges) = <<>>
             /\ edge_node' = Pop(edge_node, next_node)
             /\ draws' = Append(draws, r)
             /\ step' = [NoStep EXCEPT !.kind = "discard", !.node = next_node]
             /\ IF DOMAIN edge_node' = {}
                THEN Return(nodes)
                ELSE UNCHANGED <<pc, returned, printed>>
             /\ UNCHANGED <<nodes_from_edges, nodes, num_paths, cur_node,
                            cur_tlid, err, entered, visited, moved>>

\* a faulty restart: the node drawn becomes the current node
ResumeAtNode ==
    /\ pc = "restarting"
    /\ UNCHANGED <<inputs, history, matcher>>
    /\ \E r1 \in Draws(Len(KeyList(edge_node)), 0) :
         LET next_node == Choice(KeyList(edge_node), r1)
             left == unvisited(edge_node[next_node], nodes_from_edges)
         IN  /\ left # <<>>
             /\ \E r2 \in Draws(Len(left), 1) :
                  LET next_tlid == Choice(left, r2)
                      en1 == [edge_node EXCEPT ![next_node] = left]
                      st == [NoStep EXCEPT !.kind = "restart",
                                !.node = next_node, !.next = next_tlid,
                                !.opts = left]
                  IN  IF nodes_from_edges[next_tlid] = <<>>
                      THEN Raise("IndexError", en1, nodes_from_edges, nodes,
                                 draws \o <<r1, r2>>, st)
                      ELSE /\ edge_node' = en1
                           /\ num_paths' = next_path(num_paths)
                           /\ cur_tlid' = next_tlid
                           /\ cur_node' = next_node
                           /\ draws' = draws \o <<r1, r2>>
                           /\ step' = st
                           /\ pc' = "loop"
                           /\ UNCHANGED <<nodes_from_edges, nodes, err,
                                          returned, printed, entered,
                                          visited, moved>>

\* lines 294-311, 341-352: the restart search draws a node that still has
\* unvisited segments; a random one of them starts the next path
Resume ==
    /\ pc = "restarting"
    /\ UNCHANGED <<inputs, history, matcher>>
    /\ \E r1 \in Draws(Len(KeyList(edge_node)), 0) :
         LET next_node == Choice(KeyList(edge_node), r1)
             left == unvisited(edge_node[next_node], nodes_from_edges)
         IN  /\ left # <<>>
             /\ \E r2 \in Draws(Len(left), 1) :
                  LET next_tlid == Choice(left, r2)
                      en1 == [edge_node EXCEPT ![next_node] = left]
                      st == [NoStep EXCEPT !.kind = "restart",
                                !.node = next_node, !.next = next_tlid,
                                !.opts = left]
                  IN  IF nodes_from_edges[next_tlid] = <<>>
                      THEN Raise("IndexError", en1, nodes_from_edges, nodes,
                                 draws \o <<r1, r2>>, st)
                      ELSE /\ edge_node' = en1
                           /\ num_paths' = next_path(num_paths)
                           /\ cur_tlid' = next_tlid
                           /\ cur_node' = nodes_from_edges[next_tlid][1]
                           /\ draws' = draws \o <<r1, r2>>
                           /\ step' = st
                           /\ pc' = "loop"
                           /\ UNCHANGED <<nodes_from_edges, nodes, err,
                                          returned, printed, entered,
                                          visited, moved>>

\* a caller's second call of walk_network, on the same random seed
Again(isfresh, en, nfe) ==
    /\ pc = "done"
    /\ run = 1
    /\ run' = 2
    /\ fresh' = isfresh
    /\ seed' = draws
    /\ nodes_1' = nodes
    /\ edge_node' = en
    /\ nodes_from_edges' = nfe
    /\ draws' = <<>>
    /\ nodes' = EmptyDict
    /\ num_paths' = 0
    /\ cur_node' = None
    /\ cur_tlid' = None
    /\ pc' = "start"
    /\ returned' = <<>>
    /\ printed' = <<>>
    /\ step' = NoStep
    /\ entered' = 0
    /\ visited' = <<>>
    /\ moved' = {}
    /\ UNCHANGED <<inputs, err, matcher>>

\* the second call is handed the very dicts the first call was handed
CallAgainSame == Again(FALSE, edge_node, nodes_from_edges)

\* a faulty caller: it does not build the mappings anew
CallAgainStale == Again(TRUE, edge_node, nodes_from_edges)

\* walk_county builds the mappings anew before every call (lines 359-361)
CallAgainFresh == Again(TRUE, built.edge_node, built.nodes_from_edges)

Next == Start \/ DeadEnd \/ Move \/ Discard \/ Resume

Spec == Init /\ [][Next]_vars

NextTwice == Next \/ CallAgainSame \/ CallAgainFresh

SpecTwice == Init /\ [][NextTwice]_vars

\* ---- the address matcher: text and tables -----------------------------
\* A str is the sequence of its characters; PyNone is None where a str is
\* expected.  A TLIDs cell of the merged table is [list |-> TRUE, items |->
\* the list] or nan (a float, what a left merge or an empty cell leaves).
\* A geometry cell is [kind |-> "str", coords |-> the vertices its WKT
\* holds], a nan, or the copy's marker of a geometry it could not find.
MaxAddr == 2        \* MAFIDs are 1..MaxAddr
MaxTLID == 3        \* the segments of the crosswalk are 1..MaxTLID
MaxCoord == 1       \* coordinates are 0..MaxCoord
MaxVerts == 2       \* a line has at most MaxVerts vertices

PyNone == <<"None">>
nan == [list |-> FALSE, items |-> <<>>]
List(l) == [list |-> TRUE, items |-> l]

Digits == <<"0", "1", "2", "3", "4", "5", "6", "7", "8", "9">>

\* str(i) of a TLID read as an integer
str(i) == <<Digits[i + 1]>>

\* str(list): how to_csv writes the list of possible TLIDs into a cell
RECURSIVE join(_)
join(l) ==
    IF l = <<>> THEN <<>>
    ELSE IF Len(l) = 1 THEN str(l[1])
    ELSE str(l[1]) \o <<",", " ">> \o join(Tail(l))

to_csv_cell(l) == <<"[">> \o join(l) \o <<"]">>

\* str.strip(chars)
RECURSIVE lstrip(_, _)
lstrip(s, chars) ==
    IF s # <<>> /\ Head(s) \in chars THEN lstrip(Tail(s), chars) ELSE s

RECURSIVE rstrip(_, _)
rstrip(s, chars) ==
    IF s # <<>> /\ s[Len(s)] \in chars
    THEN rstrip(SubSeq(s, 1, Len(s) - 1), chars) ELSE s

strip(s, chars) == rstrip(lstrip(s, chars), chars)

\* str.replace(c, "")
RECURSIVE remove_char(_, _)
remove_char(s, c) ==
    IF s = <<>> THEN <<>>
    ELSE IF Head(s) = c THEN remove_char(Tail(s), c)
    ELSE <<Head(s)>> \o remove_char(Tail(s), c)

\* str.split(sep): one piece more than there are separators
RECURSIVE split(_, _)
split(s, sep) ==
    IF \A i \in DOMAIN s : s[i] # sep THEN <<s>>
    ELSE LET i == CHOOSE k \in DOMAIN s :
                     s[k] = sep /\ \A j \in 1..(k - 1) : s[j] # sep
         IN  <<SubSeq(s, 1, i - 1)>> \o split(SubSeq(s, i + 1, Len(s)), sep)

\* the TLIDs column import_xwalk makes of a cell's text
import_xwalk(text) ==
    split(remove_char(strip(text, {"[", "]"}), " "), ",")

\* what the merge puts in an address's TLIDs column
merge_xwalk_addresses(cell) ==
    IF cell.kind = "text" THEN List(import_xwalk(cell.text))
    ELSE IF cell.kind = "list" THEN List(cell.items)
    ELSE nan

\* xwalk.loc[:, 'TLIDs'].to_dict()
TLIDs_to_dict(xwalk) == [id \in DOMAIN xwalk |-> xwalk[id].TLIDs]

isinstance_list(v) == v.list

\* ---- the address matcher: the partitioner -----------------------------
\* the addresses with exactly one candidate, mapped to it
get_single_TLID_addresses(xwalk) ==
    LET candidates == TLIDs_to_dict(xwalk)
        ids == {id \in DOMAIN candidates :
                   /\ isinstance_list(candidates[id])
                   /\ Len(candidates[id].items) = 1}
    IN  [id \in ids |-> candidates[id].items[1]]

\* a faulty list: only the addresses whose candidates are not a list
address_not_list(candidates) ==
    {id \in DOMAIN candidates : ~isinstance_list(candidates[id])}

\* address_no_cand of get_single_TLID_addresses: an empty list, or no list
address_no_cand(candidates) ==
    {id \in DOMAIN candidates :
        \/ /\ isinstance_list(candidates[id])
           /\ Len(candidates[id].items) = 0
        \/ ~isinstance_list(candidates[id])}

\* a faulty test: one candidate counts as several
one_or_more(n) == n >= 1

\* len(data['TLIDs']) > 1
more_than_one(n) == n > 1

\* the addresses with several candidates, mapped to their row
get_multi_TLID_addresses(xwalk) ==
    LET ids == {id \in DOMAIN xwalk :
                   /\ isinstance_list(xwalk[id].TLIDs)
                   /\ more_than_one(Len(xwalk[id].TLIDs.items))}
    IN  [id \in ids |-> xwalk[id]]

\* ---- the address matcher: the resolver --------------------------------
GeoNone == [kind |-> "None", coords |-> <<>>]
GeoNan == [kind |-> "nan", coords |-> <<>>]
GeoStr(c) == [kind |-> "str", coords |-> c]

\* edges.loc[id, 'geometry'], None when the lookup fails
find_edge_geo(id, edges_df) ==
    IF id \in DOMAIN edges_df THEN edges_df[id] ELSE GeoNone

\* {tlid: ... for tlid in tlids}: a key keeps the place of its first
\* occurrence
RECURSIVE dict_of(_, _, _)
dict_of(tlids, edges_df, seen) ==
    IF tlids = <<>> THEN <<>>
    ELSE IF Head(tlids) \in seen THEN dict_of(Tail(tlids), edges_df, seen)
    ELSE <<[tlid |-> Head(tlids), geo |-> find_edge_geo(Head(tlids), edges_df)]>>
         \o dict_of(Tail(tlids), edges_df, seen \cup {Head(tlids)})

\* per address with several candidates, the geometry of each candidate
get_candidate_geoms(multi_TLID_addresses, edges_df) ==
    [id \in DOMAIN multi_TLID_addresses |->
        dict_of(multi_TLID_addresses[id].TLIDs.items, edges_df, {})]

\* np.sqrt(np.sum((coord1 - coord2) ** 2)), kept as the sum of squares:
\* the square root preserves the order of distances
straight_line_distance(coord1, coord2) ==
    (coord1[1] - coord2[1]) * (coord1[1] - coord2[1])
  + (coord1[2] - coord2[2]) * (coord1[2] - coord2[2])

isinstance_str(geo) == geo.kind = "str"

\* a faulty reading: only the first vertex of the line
first_coord(geo) ==
    IF geo.coords = <<>> THEN <<>> ELSE <<geo.coords[1]>>

\* list(loads(aline_wkt).coords)
coords(geo) == geo.coords

\* a faulty comparison: a vertex at the same distance replaces the minimum
closer_or_equal(dist, min_dist) == min_dist = inf \/ dist <= min_dist

\* dist < min_dist
closer(dist, min_dist) == min_dist = inf \/ dist < min_dist

\* the inner loop of find_closest over the vertices of one line; bound
\* tells whether vert and dist have been assigned
RECURSIVE fc_verts(_, _, _, _)
fc_verts(verts, idx, point, st) ==
    IF verts = <<>> THEN st
    ELSE LET dist == straight_line_distance(Head(verts), point)
         IN  fc_verts(Tail(verts), idx, point,
                      IF closer(dist, st.min_dist)
                      THEN [min_dist |-> dist, closest_line |-> idx,
                            bound |-> TRUE]
                      ELSE [st EXCEPT !.bound = TRUE])

\* the outer loop of find_closest over the items of linedict
RECURSIVE fc_lines(_, _, _)
fc_lines(items, point, st) ==
    IF items = <<>> THEN st
    ELSE fc_lines(Tail(items), point,
                  IF isinstance_str(Head(items).geo)
                  THEN fc_verts(coords(Head(items).geo), Head(items).tlid,
                                point, st)
                  ELSE st)

fc_start == [min_dist |-> inf, closest_line |-> PyNone, bound |-> FALSE]

\* scripts/match_tlid_utils.py: the closest candidate, or the exception
\* the closing print raises when it reads vert and dist unassigned
find_closest(linedict, point) ==
    LET st == fc_lines(linedict, point, fc_start)
    IN  IF st.closest_line = PyNone /\ ~st.bound
        THEN [err |-> "UnboundLocalError", value |-> PyNone]
        ELSE [err |-> "none", value |-> st.closest_line]

\* match_tlid_utils.py, the top-level copy: its return statement is inside
\* the loop over the candidates, and it loads every geometry that is not
\* its 'None' marker
find_closest_top(linedict, point) ==
    IF linedict = <<>> THEN [err |-> "none", value |-> PyNone]
    ELSE LET geo == Head(linedict).geo
         IN  IF geo.kind = "None" THEN [err |-> "none", value |-> PyNone]
             ELSE IF geo.kind = "nan"
             THEN [err |-> "Exception", value |-> PyNone]
             ELSE [err |-> "none",
                   value |-> fc_verts(geo.coords, Head(linedict).tlid, point,
                                      fc_start).closest_line]

\* a faulty caller: it always takes the first address's candidates
match_first_address(id, attributes, geoms) ==
    find_closest(geoms[CHOOSE k \in DOMAIN geoms : \A j \in DOMAIN geoms : k <= j],
                 <<attributes.LATITUDE, attributes.LONGITUDE>>)

\* find_closest on the address's candidates and its (latitude, longitude)
match_an_address(id, attributes, geoms) ==
    find_closest(geoms[id], <<attributes.LATITUDE, attributes.LONGITUDE>>)

\* {**single, **multi_results}
merge_dicts(d1, d2) ==
    [k \in DOMAIN d1 \cup DOMAIN d2 |-> IF k \in DOMAIN d2 THEN d2[k] ELSE d1[k]]

\* ---- the address matcher: its inputs ----------------------------------
Grid == (0..MaxCoord) \X (0..MaxCoord)
VertexLists == UNION {[1..n -> Grid] : n \in 0..MaxVerts}

\* the geometry cells of an edges row; GeoNone here: the TLID has no row
FullGeos == {GeoNone, GeoNan} \cup {GeoStr(c) : c \in VertexLists}
PointGeos == {GeoNone} \cup {GeoStr(<<v>>) : v \in Grid}

\* the edges table, indexed by TLID as a str
EdgeGeoTable(choice) ==
    [k \in {str(t) : t \in {u \in DOMAIN choice : choice[u] # GeoNone}} |->
        choice[CHOOSE t \in DOMAIN choice : str(t) = k]]

\* the lists of n different segments
DistinctLists(n) ==
    {l \in [1..n -> 1..MaxTLID] : \A i, j \in 1..n : l[i] = l[j] => i = j}

\* the lists of at most n segments, repetitions included
AnyLists(n) == UNION {[1..k -> 1..MaxTLID] : k \in 0..n}

Text(l) == [kind |-> "text", text |-> to_csv_cell(l), items |-> <<>>]
NoCell == [kind |-> "nan", text |-> <<>>, items |-> <<>>]
EmptyList == [kind |-> "list", text |-> <<>>, items |-> <<>>]

\* an address that several segments may own
ResolverCells == {Text(l) : l \in DistinctLists(2) \cup DistinctLists(3)}

\* every kind of address: a crosswalk cell of up to two segments, no
\* crosswalk row, or an empty list handed over as such
PartitionCells == {Text(l) : l \in AnyLists(2)} \cup {NoCell, EmptyList}

\* three edges tables: a vertex for every segment, no row at all, and a
\* row for segment 1 only
PartitionGeos ==
    { [t \in 1..MaxTLID |-> GeoStr(<<(<<t % (MaxCoord + 1), 0>>)>>)],
      [t \in 1..MaxTLID |-> GeoNone],
      [t \in 1..MaxTLID |-> IF t = 1 THEN GeoStr(<<(<<0, 0>>)>>) ELSE GeoNone] }

\* the merged table of the given cells and points
MergedTable(cells, lat, lon) ==
    [id \in DOMAIN cells |->
        [TLIDs |-> merge_xwalk_addresses(cells[id]),
         LATITUDE |-> lat[id], LONGITUDE |-> lon[id]]]

\* ---- the address matcher: match_county_tlid ---------------------------
\* no walk: the matcher is a program of its own
WalkOff ==
    /\ edges = <<>>
    /\ data = EmptyDict
    /\ built = [edge_node |-> EmptyDict, nodes_from_edges |-> EmptyDict]
    /\ edge_node = EmptyDict
    /\ nodes_from_edges = EmptyDict
    /\ nodes = EmptyDict
    /\ num_paths = 0
    /\ cur_node = None
    /\ cur_tlid = None
    /\ pc = "off"
    /\ err = "none"
    /\ returned = <<>>
    /\ printed = <<>>
    /\ step = NoStep
    /\ entered = 0
    /\ visited = <<>>
    /\ moved = {}
    /\ run = 1
    /\ fresh = TRUE
    /\ draws = <<>>
    /\ seed = <<>>
    /\ nodes_1 = EmptyDict

InitMatch ==
    /\ WalkOff
    /\ \/ \* one address with several candidates, every geometry
          \E cell \in ResolverCells, lat \in 0..MaxCoord :
          \E g \in [1..2 -> FullGeos], h \in [3..MaxTLID -> PointGeos] :
             /\ xwalk_cells = <<cell>>
             /\ maf_xwalk = MergedTable(xwalk_cells, <<lat>>, <<0>>)
             /\ edges_geo = EdgeGeoTable([t \in 1..MaxTLID |->
                                            IF t <= 2 THEN g[t] ELSE h[t]])
       \/ \* every kind of address, three edges tables
          \E cells \in [1..MaxAddr -> PartitionCells], g \in PartitionGeos :
             /\ xwalk_cells = cells
             /\ maf_xwalk = MergedTable(cells, [id \in 1..MaxAddr |-> 0],
                                        [id \in 1..MaxAddr |-> 0])
             /\ edges_geo = EdgeGeoTable(g)
    /\ single = EmptyDict
    /\ multi = EmptyDict
    /\ geom_list = EmptyDict
    /\ todo = <<>>
    /\ multi_results = EmptyDict
    /\ results = EmptyDict
    /\ reported = EmptyDict
    /\ mpc = "single"
    /\ merr = "none"
    /\ top_closest = <<>>
    /\ shards = NoShards

\* county_to_dicts, line 41: the one-option addresses and the two counts
GetSingle ==
    /\ mpc = "single"
    /\ single' = get_single_TLID_addresses(maf_xwalk)
    /\ reported' =
          [k \in {"one-option", "no-option"} |->
              IF k = "one-option" THEN Cardinality(DOMAIN single')
              ELSE Cardinality(address_no_cand(TLIDs_to_dict(maf_xwalk)))]
    /\ mpc' = "multi"
    /\ UNCHANGED <<walk, shards, xwalk_cells, maf_xwalk, edges_geo, multi, geom_list,
                   todo, multi_results, results, merr, top_closest>>

\* county_to_dicts, line 42: the multi-option addresses and their count
GetMulti ==
    /\ mpc = "multi"
    /\ multi' = get_multi_TLID_addresses(maf_xwalk)
    /\ reported' = Put(reported, "multi-option", Cardinality(DOMAIN multi'))
    /\ mpc' = "geoms"
    /\ UNCHANGED <<walk, shards, xwalk_cells, maf_xwalk, edges_geo, single, geom_list,
                   todo, multi_results, results, merr, top_closest>>

\* county_to_dicts, line 43, and the start of match_generator
GetGeoms ==
    /\ mpc = "geoms"
    /\ geom_list' = get_candidate_geoms(multi, edges_geo)
    /\ todo' = KeyList(multi)
    /\ mpc' = "match"
    /\ UNCHANGED <<walk, shards, xwalk_cells, maf_xwalk, edges_geo, single, multi,
                   multi_results, results, reported, merr, top_closest>>

\* match_generator: the next address of multi is resolved; an exception of
\* find_closest ends the run
MatchNext ==
    /\ mpc = "match"
    /\ todo # <<>>
    /\ LET id == Head(todo)
           r == match_an_address(id, multi[id], geom_list)
       IN  IF r.err # "none"
           THEN /\ mpc' = "raised"
                /\ merr' = r.err
                /\ UNCHANGED <<todo, multi_results>>
           ELSE /\ multi_results' = Put(multi_results, id, r.value)
                /\ todo' = Tail(todo)
                /\ UNCHANGED <<mpc, merr>>
    /\ UNCHANGED <<walk, shards, xwalk_cells, maf_xwalk, edges_geo, single, multi,
                   geom_list, results, reported, top_closest>>

\* match_county_tlid, lines 114-128: the two mappings are merged and every
\* item is written as a row
WriteResults ==
    /\ mpc = "match"
    /\ todo = <<>>
    /\ results' = merge_dicts(single, multi_results)
    /\ mpc' = "done"
    /\ UNCHANGED <<walk, shards, xwalk_cells, maf_xwalk, edges_geo, single, multi,
                   geom_list, todo, multi_results, reported, merr,
                   top_closest>>

\* the top-level copy of find_closest, called once on the candidates and
\* the point of the address that is next
CallTopLevel ==
    /\ mpc = "match"
    /\ todo # <<>>
    /\ top_closest = <<>>
    /\ LET id == Head(todo)
           r == find_closest_top(geom_list[id],
                                 <<multi[id].LATITUDE, multi[id].LONGITUDE>>)
       IN  top_closest' = <<[id |-> id, err |-> r.err, value |-> r.value]>>
    /\ UNCHANGED <<walk, shards, xwalk_cells, maf_xwalk, edges_geo, single, multi,
                   geom_list, todo, multi_results, results, reported, mpc,
                   merr>>

NextMatch ==
    GetSingle \/ GetMulti \/ GetGeoms \/ MatchNext \/ WriteResults
        \/ CallTopLevel

SpecMatch == InitMatch /\ [][NextMatch]_vars

\* ---- the address matcher: the addresses shared among workers ----------
\* a faulty resolver: it takes the candidates out of the mapping it reads
linedict_drained(linedict) == <<>>

\* find_closest only iterates linedict.items(): the mapping, which is the
\* entry of geom_list itself, is after the call what it was before
linedict_kept(linedict) == linedict

\* the mappings of the workers put together: dict() of all their pairs
RECURSIVE merge_all(_, _)
merge_all(out, n) ==
    IF n = 0 THEN EmptyDict ELSE merge_dicts(merge_all(out, n - 1), out[n])

\* addresses that all have two candidates, each at its own latitude, and
\* for every segment no row or a one-vertex line
InitShards ==
    /\ WalkOff
    /\ \E cells \in [1..MaxAddr -> {Text(l) : l \in DistinctLists(2)}],
          lat \in [1..MaxAddr -> 0..MaxCoord],
          g \in [1..MaxTLID -> PointGeos] :
          /\ xwalk_cells = cells
          /\ maf_xwalk = MergedTable(cells, lat, [id \in 1..MaxAddr |-> 0])
          /\ edges_geo = EdgeGeoTable(g)
    /\ single = EmptyDict
    /\ multi = EmptyDict
    /\ geom_list = EmptyDict
    /\ todo = <<>>
    /\ multi_results = EmptyDict
    /\ results = EmptyDict
    /\ reported = EmptyDict
    /\ mpc = "single"
    /\ merr = "none"
    /\ top_closest = <<>>
    /\ shards = NoShards

\* one call of match_an_address by a worker, on any address of multi that no
\* worker has taken; an exception of find_closest ends that worker
ShardResolve ==
    /\ mpc \in {"match", "done", "raised"}
    /\ shards.merged = <<>>
    /\ \E s \in 1..NShards, id \in DOMAIN multi \ Range(shards.order) :
          LET r == match_an_address(id, multi[id], geom_list)
          IN  /\ geom_list' = [geom_list EXCEPT ![id] = linedict_kept(@)]
              /\ shards' =
                    IF r.err # "none"
                    THEN [shards EXCEPT !.order = Append(@, id),
                                        !.err = r.err]
                    ELSE [shards EXCEPT !.order = Append(@, id),
                                        !.out[s] = Put(@, id, r.value)]
    /\ UNCHANGED <<walk, xwalk_cells, maf_xwalk, edges_geo, single, multi,
                   todo, multi_results, results, reported, mpc, merr,
                   top_closest>>

\* every address was resolved by some worker: the workers' mappings are
\* put together
ShardMerge ==
    /\ mpc \in {"match", "done", "raised"}
    /\ shards.merged = <<>>
    /\ shards.err = "none"
    /\ Range(shards.order) = DOMAIN multi
    /\ shards' = [shards EXCEPT !.merged = <<merge_all(shards.out, NShards)>>]
    /\ UNCHANGED <<walk, xwalk_cells, maf_xwalk, edges_geo, single, multi,
                   geom_list, todo, multi_results, results, reported, mpc,
                   merr, top_closest>>

NextShards ==
    GetSingle \/ GetMulti \/ GetGeoms \/ MatchNext \/ WriteResults
        \/ ShardResolve \/ ShardMerge

SpecShards == InitShards /\ [][NextShards]_vars

\* ---- vocabulary of the properties -----------------------------------------
TLIDs == 1..Len(edges)
TNIDs == {edges[t].TNIDF : t \in TLIDs} \cup {edges[t].TNIDT : t \in TLIDs}
Ends(t) == {edges[t].TNIDF, edges[t].TNIDT}
SegsAt(n) == {t \in TLIDs : n \in Ends(t)}
AllRows == DOMAIN data = TLIDs

\* the nodes connected to n by a chain of segments
RECURSIVE Reach(_)
Reach(S) ==
    LET T == S \cup UNION {Ends(t) : t \in {u \in TLIDs : Ends(u) \cap S # {}}}
    IN  IF T = S THEN S ELSE Reach(T)

Components == {Reach({n}) : n \in TNIDs}

IsSquare ==
    /\ Len(edges) = 4
    /\ Cardinality(TNIDs) = 4
    /\ Cardinality(Components) = 1
    /\ \A n \in TNIDs : Cardinality(SegsAt(n)) = 2
    /\ \A t \in TLIDs : Cardinality(Ends(t)) = 2

UniformAttrs ==
    AllRows /\ \A t, u \in TLIDs : data[t].attrs = data[u].attrs

Terminal == pc \in {"done", "raised"}

\* the distance find_most_similar computes from the current segment
StepDist(t) == euc_distance(step.tlid, t, drop_FULLNAME(data))

Index(list, x) == CHOOSE i \in DOMAIN list : list[i] = x

\* ---- C1 -------------------------------------------------------------------
\* C1: at every non-stuck step the segment find_most_similar returned is a
\* listed segment at minimal distance from the current segment, and the
\* first such segment in list order.
C1_NextIsFirstNearest ==
    step.kind = "move" =>
        /\ step.next \in Range(step.opts)
        /\ \A j \in DOMAIN step.opts :
              /\ dist_le(StepDist(step.next), StepDist(step.opts[j]))
              /\ StepDist(step.opts[j]) = StepDist(step.next)
                    => Index(step.opts, step.next) <= j

\* ---- C2 -------------------------------------------------------------------
\* C2: with an attribute row for every segment, every outer iteration has
\* removed exactly one segment, every restart iteration has discarded one
\* node, and the walk does not stop before it has returned in Done.
C2_WalkReachesDone ==
    AllRows =>
        /\ pc \in {"loop", "restarting", "done"} =>
              Cardinality(DOMAIN nodes_from_edges) + Len(visited)
                 = Len(edges)
        /\ step.kind = "discard" => step.node \notin DOMAIN edge_node
        /\ pc = "done" \/ ENABLED Next

\* ---- C3 -------------------------------------------------------------------
\* C3: a segment without an attribute row never makes walk_network raise:
\* no call ends in the KeyError of a failed row lookup.
C3_MissingRowNeverRaises == ~(pc = "raised" /\ err = "KeyError")

C5_TableCoversEveryNode ==
    Cardinality(Components) = 2 /\ pc = "done"
        => entered >= 1 /\ DOMAIN nodes = TNIDs

\* C5 as amended: on a graph of two components every returning walk entered
\* Restarting, restarted at least once (two paths or more), and its table
\* has an entry for every node a similarity move was made from and only for
\* nodes of the graph where two or more segments meet.
C5_TableCoversMoves ==
    Cardinality(Components) = 2 /\ pc = "done"
        => /\ entered >= 1
           /\ num_paths >= 2
           /\ moved \subseteq DOMAIN nodes
           /\ \A n \in DOMAIN nodes :
                 n \in TNIDs /\ Cardinality(SegsAt(n)) >= 2

\* a returned walk over two components that left a node without an entry
C5_Witness ==
    /\ Cardinality(Components) = 2
    /\ pc = "done"
    /\ DOMAIN nodes # {}
    /\ DOMAIN nodes # TNIDs

\* ---- C6 -------------------------------------------------------------------
\* C6: when the walk is stuck and no node with remaining segments is left,
\* it ends in Done, also when the discarded node was the last node.
C6_ExhaustedGraphIsDone ==
    /\ step.kind = "stuck"
    /\ \A n \in DOMAIN edge_node :
          unvisited(edge_node[n], nodes_from_edges) = <<>>
    => pc \in {"restarting", "done"}

\* ---- C7 -------------------------------------------------------------------
\* C7: after a non-stuck step the indicator of the node the step was made at
\* is 1 if the next and the current segment have the same street name, else 0.
C7_IndicatorIsSameStreet ==
    step.kind = "move" =>
        /\ step.node \in DOMAIN nodes
        /\ nodes[step.node].street =
              IF data[step.next].FULLNAME = data[step.tlid].FULLNAME
              THEN 1 ELSE 0

\* a move onto another street, after a move that stayed on its street
C7_Witness ==
    /\ step.kind = "move"
    /\ nodes[step.node].street = 0
    /\ \E n \in DOMAIN nodes : nodes[n].street = 1

\* ---- C8 -------------------------------------------------------------------
\* C8: on a square with equal attribute vectors no walk raises or stops
\* before Done, no segment is current twice, and once the walk is stuck
\* every segment has been current exactly once and no restart was made.
C8_SquareOnePath ==
    IsSquare /\ UniformAttrs =>
        /\ pc # "raised"
        /\ pc = "done" \/ ENABLED Next
        /\ \A i, j \in DOMAIN visited : visited[i] = visited[j] => i = j
        /\ num_paths <= 1
        /\ pc \in {"restarting", "done"} =>
              Range(visited) = TLIDs /\ Len(visited) = 4

\* a walk over the square has returned
C8_Witness == IsSquare /\ UniformAttrs /\ pc = "done" /\ Len(visited) = 4

\* ---- C9 -------------------------------------------------------------------
\* C9 as stated: a second call with the same seed sees the graph the first
\* call saw, whether or not it is handed the same graph objects, and returns
\* the same decision table.
C9_SecondRunSameTable ==
    run = 2 =>
        /\ pc = "start" => /\ edge_node = built.edge_node
                           /\ nodes_from_edges = built.nodes_from_edges
        /\ Terminal => pc = "done" /\ nodes = nodes_1

\* C9 as amended: a second call with the same seed on mappings equal to
\* those the first call was given (built anew) sees the same graph and
\* returns the same decision table; the graph objects of the first call are
\* empty after it.
C9_FreshRunSameTable ==
    /\ run = 2 /\ fresh =>
          /\ pc = "start" => /\ edge_node = built.edge_node
                             /\ nodes_from_edges = built.nodes_from_edges
          /\ Terminal => pc = "done" /\ nodes = nodes_1 /\ draws = seed
    /\ run = 2 /\ ~fresh /\ pc = "start" =>
          DOMAIN edge_node = {} /\ DOMAIN nodes_from_edges = {}

\* a second call on new mappings has returned a table with both indicators
C9_Witness ==
    /\ run = 2 /\ fresh /\ pc = "done"
    /\ \E n, m \in DOMAIN nodes : nodes[n].street = 0 /\ nodes[m].street = 1
    /\ num_paths >= 2

\* ---- C10 ------------------------------------------------------------------
\* C10 as stated: when the walk reaches Done it returns the decision table
\* together with a count, and the count is the number of times Restarting
\* was entered.
C10_ReturnsTableAndCount ==
    pc = "done" =>
        /\ Len(returned) = 2
        /\ returned[1] = nodes
        /\ returned[2] = entered

\* C10 as amended: when the walk reaches Done it returns the decision table
\* alone and prints the number of its entries and num_paths, and num_paths
\* is the number of times Restarting was entered.
C10_PrintsRestartingEntries ==
    pc = "done" =>
        /\ returned = <<nodes>>
        /\ printed = <<Cardinality(DOMAIN nodes), num_paths>>
        /\ num_paths = entered

\* a walk has returned after entering Restarting several times
C10_Witness ==
    pc = "done" /\ entered >= 3 /\ DOMAIN nodes # {} /\ returned # <<>>

\* ---- C11 ------------------------------------------------------------------
\* the segments with two distinct endpoints, and the number of node
\* references a segment has in an edge-to-nodes mapping
TwoEnded == {t \in TLIDs : Cardinality(Ends(t)) = 2}
Refs(nfe, t) == IF t \in DOMAIN nfe THEN Len(nfe[t]) ELSE 0

\* C11 as stated: every segment with two distinct endpoints starts with
\* exactly two node references, loses them one at a time, and has none left
\* when the walk has returned.
C11_RefsRemovedOneAtATime ==
    /\ [](pc = "start" =>
            \A t \in TwoEnded : Refs(nodes_from_edges, t) = 2)
    /\ [][\A t \in TwoEnded :
            Refs(nodes_from_edges', t) >= Refs(nodes_from_edges, t) - 1]_vars
    /\ [](pc = "done" =>
            \A t \in TwoEnded : Refs(nodes_from_edges, t) = 0)

\* C11 as amended: every segment with two distinct endpoints starts with
\* exactly two node references (its two endpoints); a similarity move onto
\* it removes the reference to the node the walk leaves and steps to the
\* remaining one; its entry is removed whole in the iteration where it is
\* the current segment; nothing else changes its references, and after a
\* walk that returned the mapping has no entry left.
C11_RefsDroppedWhenCurrent ==
    /\ [](pc = "start" =>
            \A t \in TwoEnded :
               /\ Refs(nodes_from_edges, t) = 2
               /\ Range(nodes_from_edges[t]) = Ends(t))
    /\ [][/\ \A t \in TwoEnded :
               Refs(nodes_from_edges', t) # Refs(nodes_from_edges, t) =>
                  \/ /\ pc = "loop" /\ t = cur_tlid
                     /\ t \notin DOMAIN nodes_from_edges'
                  \/ /\ step'.kind \in {"move", "raise"} /\ t = step'.next
                     /\ Refs(nodes_from_edges, t) = 2
                     /\ Range(nodes_from_edges'[t]) = Ends(t) \ {step'.node}
          /\ step'.kind = "move" /\ step' # step /\ step'.next \in TwoEnded =>
               /\ nodes_from_edges'[step'.next] = <<cur_node'>>
               /\ Ends(step'.next) = {step'.node, cur_node'}
         ]_vars
    /\ [](pc = "done" => DOMAIN nodes_from_edges = {})

\* a walk has returned after similarity moves and a restart, over segments
\* that all have two distinct endpoints
C11_Witness ==
    /\ pc = "done"
    /\ TwoEnded = TLIDs
    /\ Len(edges) >= 3
    /\ moved # {}
    /\ num_paths >= 2

\* ---- vocabulary of the matcher's properties -------------------------------
MAFIDs == DOMAIN maf_xwalk
Partitioned == mpc \in {"geoms", "match", "done", "raised"}
AddrPoint(id) == <<maf_xwalk[id].LATITUDE, maf_xwalk[id].LONGITUDE>>

\* the squared Euclidean distance of two coordinate pairs
Euclid2(v, p) == (v[1] - p[1]) * (v[1] - p[1]) + (v[2] - p[2]) * (v[2] - p[2])

\* the places in the address's candidate mapping that hold a valid geometry
ValidAt(id) ==
    {i \in DOMAIN geom_list[id] : geom_list[id][i].geo.kind = "str"}
AllInvalid(id) == ValidAt(id) = {}

\* the distances from the address to the vertices of its i-th candidate
Dists(id, i) ==
    {Euclid2(v, AddrPoint(id)) : v \in Range(geom_list[id][i].geo.coords)}
AllDists(id) == UNION {Dists(id, i) : i \in ValidAt(id)}

\* the places of the candidates that own a vertex at the smallest distance
Nearest(id) ==
    {i \in ValidAt(id) : \E d \in Dists(id, i) : \A e \in AllDists(id) : d <= e}

TlidAt(id, i) == geom_list[id][i].tlid

\* ---- C12 ------------------------------------------------------------------
\* C12: for every address resolved with at least one vertex among its valid
\* candidates, find_closest returned a candidate that owns a vertex at the
\* smallest distance over all vertices of all valid candidates, and the
\* first such candidate in the mapping's iteration order.
C12_ClosestIsFirstNearest ==
    \A id \in DOMAIN multi_results :
        AllDists(id) # {} =>
            /\ Nearest(id) # {}
            /\ \E i \in Nearest(id) :
                  /\ multi_results[id] = TlidAt(id, i)
                  /\ \A j \in Nearest(id) : i <= j

\* an address was resolved to its second candidate, which ties with the
\* third and beats the first
C12_Witness ==
    \E id \in DOMAIN multi_results :
        /\ Len(geom_list[id]) = 3
        /\ Nearest(id) = {2, 3}
        /\ 1 \in ValidAt(id)
        /\ Dists(id, 1) # {}
        /\ multi_results[id] = TlidAt(id, 2)

\* ---- C13 ------------------------------------------------------------------
\* C13: when every candidate of an address has a missing or non-string
\* geometry, find_closest raises nothing and None is recorded as the
\* address's match; an invalid candidate among valid ones does not change
\* the result.
C13_InvalidGeometrySkipped ==
    /\ mpc = "raised" => ~AllInvalid(Head(todo))
    /\ \A id \in DOMAIN multi_results :
          /\ AllInvalid(id) => multi_results[id] = PyNone
          /\ multi_results[id] =
                find_closest(SelectSeq(geom_list[id], LAMBDA it : it.geo.kind = "str"),
                             AddrPoint(id)).value

\* ---- C14 ------------------------------------------------------------------
\* C14: the mapping match_county_tlid writes has one entry for every address
\* of the merged table, and an address with an empty or missing candidate
\* list is mapped to the no-match value.
C14_EveryAddressWritten ==
    mpc = "done" =>
        /\ DOMAIN results = MAFIDs
        /\ \A id \in MAFIDs :
              ~maf_xwalk[id].TLIDs.list \/ maf_xwalk[id].TLIDs.items = <<>>
                 => results[id] = PyNone

\* ---- C15 ------------------------------------------------------------------
\* C15: an address whose crosswalk cell is '[]' has the candidate list ['']
\* and gets no entry in the single mapping.
C15_EmptyCellIsNoMatch ==
    \A id \in MAFIDs :
        xwalk_cells[id] = Text(<<>>) =>
            /\ maf_xwalk[id].TLIDs = List(<< <<>> >>)
            /\ mpc # "single" => id \notin DOMAIN single

\* ---- C16 ------------------------------------------------------------------
\* C16: once both partitions are made their key sets are disjoint; single
\* holds exactly the addresses whose candidate list has one entry, mapped to
\* that entry; multi holds exactly the addresses whose candidate list has
\* two or more entries, mapped to the list, the latitude and the longitude.
C16_PartitionIsDisjoint ==
    Partitioned =>
        /\ DOMAIN single \cap DOMAIN multi = {}
        /\ \A id \in MAFIDs :
              LET c == maf_xwalk[id].TLIDs
              IN  /\ id \in DOMAIN single <=> c.list /\ Len(c.items) = 1
                  /\ id \in DOMAIN single => single[id] = c.items[1]
                  /\ id \in DOMAIN multi <=> c.list /\ Len(c.items) >= 2
                  /\ id \in DOMAIN multi =>
                        /\ multi[id].TLIDs = c
                        /\ multi[id].LATITUDE = maf_xwalk[id].LATITUDE
                        /\ multi[id].LONGITUDE = maf_xwalk[id].LONGITUDE

\* a table was split into a one-option and a multi-option address
C16_Witness ==
    Partitioned /\ DOMAIN single # {} /\ DOMAIN multi # {}

\* ---- C17 ------------------------------------------------------------------
\* C17: every match written that is not the no-match value is an element of
\* the address's candidate list.
C17_MatchIsACandidate ==
    mpc = "done" =>
        \A id \in DOMAIN results :
            results[id] # PyNone =>
                results[id] \in Range(maf_xwalk[id].TLIDs.items)

\* two addresses with different candidate lists were resolved and written
C17_Witness ==
    /\ mpc = "done"
    /\ Cardinality(DOMAIN multi_results) >= 2
    /\ \E i, j \in DOMAIN multi_results :
          /\ results[i] \notin Range(maf_xwalk[j].TLIDs.items)
          /\ results[j] \notin Range(maf_xwalk[i].TLIDs.items)

\* ---- C18 ------------------------------------------------------------------
\* the orders in which a mapping may list the same items
Orderings(linedict) ==
    {[i \in DOMAIN linedict |-> linedict[p[i]]] :
        p \in {q \in [DOMAIN linedict -> DOMAIN linedict] :
                  \A i, j \in DOMAIN linedict : q[i] = q[j] => i = j}}

\* the address lies on a vertex of its i-th candidate and strictly farther
\* from every vertex of its other candidates
OnVertexOf(id, i) ==
    /\ i \in ValidAt(id)
    /\ 0 \in Dists(id, i)
    /\ \A j \in ValidAt(id) \ {i} : 0 \notin Dists(id, j)

\* C18: when the address point coincides with a vertex of candidate A and
\* is strictly farther from every vertex of the other candidates,
\* find_closest returned A, and returns A for every ordering of the
\* candidate mapping.
C18_OnVertexAnyOrder ==
    \A id \in DOMAIN multi_results :
        \A i \in DOMAIN geom_list[id] :
            OnVertexOf(id, i) =>
                /\ multi_results[id] = TlidAt(id, i)
                /\ \A l \in Orderings(geom_list[id]) :
                      find_closest(l, AddrPoint(id)).value = TlidAt(id, i)

\* an address on the second vertex of its last candidate, with two other
\* candidates that have vertices, was resolved
C18_Witness ==
    \E id \in DOMAIN multi_results :
        /\ Len(geom_list[id]) = 3
        /\ OnVertexOf(id, 3)
        /\ Len(geom_list[id][3].geo.coords) = 2
        /\ Euclid2(geom_list[id][3].geo.coords[1], AddrPoint(id)) > 0
        /\ Dists(id, 1) # {} /\ Dists(id, 2) # {}

\* ---- C19 ------------------------------------------------------------------
\* C19: the top-level copy of find_closest scans every candidate: what it
\* returned for an address with a vertex among its valid candidates is a
\* candidate that owns a vertex at the smallest distance.
C19_TopLevelScansAll ==
    \A k \in DOMAIN top_closest :
        LET id == top_closest[k].id
        IN  top_closest[k].err = "none" /\ AllDists(id) # {} =>
               \E i \in Nearest(id) : top_closest[k].value = TlidAt(id, i)

\* ---- C20 ------------------------------------------------------------------
\* C20: the count of no-option addresses the partitioner prints is the
\* number of addresses that are in neither mapping, which are the addresses
\* with an empty candidate list or with candidates that are no list; the
\* three counts add up to the number of addresses.
C20_UnmatchedAreCounted ==
    Partitioned =>
        LET lost == MAFIDs \ (DOMAIN single \cup DOMAIN multi)
        IN  /\ reported["no-option"] = Cardinality(lost)
            /\ lost = {id \in MAFIDs :
                          \/ ~maf_xwalk[id].TLIDs.list
                          \/ maf_xwalk[id].TLIDs.items = <<>>}
            /\ reported["one-option"] + reported["multi-option"]
                  + reported["no-option"] = Cardinality(MAFIDs)

\* a table with an address that has an empty list and an address that has
\* no list was partitioned
C20_Witness ==
    /\ Partitioned
    /\ \E i, j \in MAFIDs :
          /\ maf_xwalk[i].TLIDs = List(<<>>)
          /\ ~maf_xwalk[j].TLIDs.list
    /\ reported["no-option"] = 2

\* ---- C21 ------------------------------------------------------------------
\* C21: the node-to-edges mapping built from a segment table has the nodes
\* of the table as keys and lists at each node, without repetition, the
\* segments that have it as from-node or to-node; the edge-to-nodes mapping
\* has the segments as keys and maps each to the list [from-node, to-node].
C21_BuiltMappings ==
    /\ DOMAIN built.edge_node = TNIDs
    /\ \A n \in TNIDs :
          /\ Range(built.edge_node[n]) = SegsAt(n)
          /\ Len(built.edge_node[n]) = Cardinality(SegsAt(n))
    /\ DOMAIN built.nodes_from_edges = TLIDs
    /\ \A t \in TLIDs :
          built.nodes_from_edges[t] = <<edges[t].TNIDF, edges[t].TNIDT>>

\* mappings were built of a table with a self-loop at a node where another
\* segment ends, and of segments that run against the order of their nodes
C21_Witness ==
    /\ pc = "start"
    /\ \E t \in TLIDs \ TwoEnded :
          /\ built.nodes_from_edges[t] = <<edges[t].TNIDF, edges[t].TNIDF>>
          /\ Len(built.edge_node[edges[t].TNIDF]) = 2
    /\ \E t \in TwoEnded : edges[t].TNIDF # edges[t].TNIDT

\* ---- C23 ------------------------------------------------------------------
\* C23: an iteration that finds exactly one unvisited segment listed at the
\* current node, a segment with an attribute row, moves to that segment, and
\* records indicator 1 at the node if both segments have the same name.
C23_OnlyOptionIsTaken ==
    /\ step.kind \in {"move", "raise"}
    /\ Len(step.opts) = 1
    /\ step.opts[1] \in DOMAIN data
    => /\ step.kind = "move"
       /\ step.next = step.opts[1]
       /\ edges[step.tlid].FULLNAME = edges[step.next].FULLNAME =>
             step.node \in DOMAIN nodes /\ nodes[step.node].street = 1

\* ---- C24 ------------------------------------------------------------------
\* C24: once find_most_similar has returned a segment, removing the current
\* node from its node list does not fail and does not leave the list empty,
\* so the iteration does not raise; every segment still in the edge-to-nodes
\* mapping, but the current one, holds both of its original references.
C24_RemainingListNeverEmpty ==
    /\ step.kind = "move" => nodes_from_edges[step.next] # <<>>
    /\ ~(step.kind = "raise" /\ step.next # None)
    /\ err # "ValueError"
    /\ pc \in {"start", "loop", "restarting"} =>
          \A t \in DOMAIN nodes_from_edges :
              t # cur_tlid \/ pc # "loop" =>
                  nodes_from_edges[t] = built.nodes_from_edges[t]

\* a move was made onto a self-loop segment: one reference to the node is
\* removed, the other is left
C24_Witness ==
    /\ step.kind = "move"
    /\ step.next \notin TwoEnded
    /\ nodes_from_edges[step.next] = <<step.node>>
    /\ \E t \in DOMAIN nodes_from_edges : t # step.next

\* ---- C25 ------------------------------------------------------------------
\* C25: with an attribute row for every segment, no iteration fails to
\* select a segment, and the segment selected by similarity or by a restart
\* is still in the edge-to-nodes mapping, was never the current segment, and
\* has the node it was chosen at as an endpoint.
C25_NextIsUnvisited ==
    AllRows =>
        /\ step.kind \notin {"raise", "lost"}
        /\ step.kind \in {"move", "restart"} =>
              /\ step.next \in DOMAIN nodes_from_edges
              /\ step.next \notin Range(visited)
              /\ step.next # step.tlid
              /\ step.node \in Ends(step.next)

\* a restart chose a segment after moves had been made
C25_Witness ==
    /\ AllRows
    /\ step.kind = "restart"
    /\ moved # {}
    /\ Len(visited) >= 2

\* ---- C26 ------------------------------------------------------------------
\* C26: on a graph without self-loops and with a row for every segment the
\* walk does not raise, no segment is current twice, and when the walk has
\* returned every segment has been current and both mappings are empty.
C26_EverySegmentOnce ==
    TwoEnded = TLIDs /\ AllRows =>
        /\ pc # "raised"
        /\ \A i, j \in DOMAIN visited : visited[i] = visited[j] => i = j
        /\ pc = "done" =>
              /\ Range(visited) = TLIDs
              /\ DOMAIN nodes_from_edges = {}
              /\ DOMAIN edge_node = {}

\* a walk over three segments without self-loops has returned after a
\* restart
C26_Witness ==
    /\ TwoEnded = TLIDs /\ AllRows
    /\ pc = "done"
    /\ Len(visited) >= 3
    /\ num_paths >= 2

\* ---- C27 ------------------------------------------------------------------
\* C27: at the top of every iteration of the outer loop the current node is
\* a key of the node-to-edges mapping, so the lookup edge_node[cur_node]
\* never raises KeyError.
C27_CurrentNodeIsAKey ==
    /\ pc = "loop" => cur_node \in DOMAIN edge_node
    /\ step.kind # "lost"

\* an iteration begins after nodes were discarded, one as stuck and one by
\* the restart search, at a node other than the one the search drew
C27_Witness ==
    /\ pc = "loop"
    /\ step.kind = "restart"
    /\ cur_node # step.node
    /\ entered >= 1
    /\ Cardinality(DOMAIN edge_node) + entered < Cardinality(TNIDs)

\* ---- C28 ------------------------------------------------------------------
\* C28: the decision table has an entry for a node exactly if a similarity
\* move was made from the node; the entry is the indicator of the last such
\* move; nothing but a similarity move writes the table, and the table that
\* is returned is this table.
C28_Entries ==
    /\ DOMAIN nodes = moved
    /\ step.kind = "move" =>
          nodes[step.node] =
              [street |-> IF edges[step.tlid].FULLNAME
                               = edges[step.next].FULLNAME THEN 1 ELSE 0]
    /\ pc = "done" => returned = <<nodes>>

C28_Written ==
    nodes' # nodes =>
        /\ step'.kind = "move"
        /\ step'.node = cur_node
        /\ \A n \in DOMAIN nodes : n # cur_node => nodes'[n] = nodes[n]

C28_TableOfMoves == [](C28_Entries) /\ [][C28_Written]_vars

\* a second move was made from a node, onto a segment with the name of the
\* segment left, after a first move that changed the name
C28_Witness ==
    /\ step.kind = "move"
    /\ Len(visited) - entered > Cardinality(moved)
    /\ nodes[step.node].street = 1

\* ---- C30 ------------------------------------------------------------------
\* C30: a restart does not raise; after it the current segment is one of
\* the unvisited segments of the restart node, the current node is the
\* from-node of that segment and a key of the node-to-edges mapping, and the
\* segment holds both of its node references.
C30_RestartPosition ==
    step.kind = "restart" =>
        /\ pc = "loop"
        /\ cur_tlid = step.next
        /\ step.next \in Range(step.opts)
        /\ Range(step.opts) = SegsAt(step.node) \cap DOMAIN nodes_from_edges
        /\ cur_node = edges[cur_tlid].TNIDF
        /\ cur_node \in DOMAIN edge_node
        /\ nodes_from_edges[cur_tlid]
               = <<edges[cur_tlid].TNIDF, edges[cur_tlid].TNIDT>>

\* a restart drew the to-node of the segment it chose, which was not the
\* first one listed at that node
C30_Witness ==
    /\ step.kind = "restart"
    /\ pc = "loop"
    /\ cur_node # step.node
    /\ step.node = edges[cur_tlid].TNIDT
    /\ step.opts[1] # cur_tlid

\* ---- C29 ------------------------------------------------------------------
\* the squared distance from a vertex (x = longitude, y = latitude) to the
\* address, longitude paired with x and latitude with y
LikeAxes2(id, v) ==
    (v[1] - maf_xwalk[id].LONGITUDE) * (v[1] - maf_xwalk[id].LONGITUDE)
  + (v[2] - maf_xwalk[id].LATITUDE) * (v[2] - maf_xwalk[id].LATITUDE)

\* C29: for every vertex of a valid candidate of a resolved address, the
\* distance find_closest computed from the vertex to the address's point is
\* the distance that pairs longitude with x and latitude with y, and the
\* candidate returned owns a vertex nearest to the address by that distance.
C29_LikeAxesPaired ==
    \A id \in DOMAIN multi_results :
        /\ \A i \in ValidAt(id) :
              \A v \in Range(geom_list[id][i].geo.coords) :
                  straight_line_distance(v, AddrPoint(id)) = LikeAxes2(id, v)
        /\ AllDists(id) # {} =>
              \E i \in ValidAt(id) :
                  /\ TlidAt(id, i) = multi_results[id]
                  /\ \E v \in Range(geom_list[id][i].geo.coords) :
                        \A j \in ValidAt(id) :
                            \A w \in Range(geom_list[id][j].geo.coords) :
                                LikeAxes2(id, v) <= LikeAxes2(id, w)

\* ---- C22 ------------------------------------------------------------------
\* C22: resolving an address changes neither the geometry cache nor the
\* multi mapping; the addresses of multi, resolved in any order by any
\* number of workers, get the matches match_generator gives them; the
\* workers' mappings merged are match_generator's mapping, and a worker
\* raises exactly if match_generator does.
C22_SameMatches ==
    /\ \A s \in 1..NShards : \A id \in DOMAIN shards.out[s] :
          /\ id \in DOMAIN multi_results =>
                shards.out[s][id] = multi_results[id]
          /\ \A t \in 1..NShards : id \in DOMAIN shards.out[t] => s = t
    /\ shards.merged # <<>> =>
          /\ mpc # "raised"
          /\ mpc = "done" => shards.merged[1] = multi_results
    /\ shards.err # "none" =>
          /\ mpc # "done"
          /\ mpc = "raised" => shards.err = merr
    /\ mpc = "raised" /\ Range(shards.order) = DOMAIN multi =>
          shards.err # "none"

C22_ReadOnly ==
    mpc \in {"match", "done", "raised"} => UNCHANGED <<geom_list, multi>>

====
